---- MODULE Spec2Model ----
(***************************************************************************)
(* Model of the relaxed configuration parser (src/raw_parser.py) and of    *)
(* the macro resolver read_params (src/create_db.py).                      *)
(*                                                                         *)
(* A text is a sequence of one-character strings, indexed from 1 (Python   *)
(* index + 1).  A parser is an operator p(t, i) that returns the parsec    *)
(* result [ok, i, v]: on success i is the index after the match, on        *)
(* failure i is the index parsec reports (string() reports the index after *)
(* the characters it matched, so a failure can have consumed input).       *)
(* The combinators are those of parsec 3.x: `|` tries its right side only  *)
(* when the left side failed without consuming, many() and sepBy() stop at *)
(* the first failure of their element.                                     *)
(***************************************************************************)
EXTENDS Integers, Sequences, FiniteSets, TLC

VARIABLES
    mode,        \* "resolve": a read_params run; "parse": a run of parse() alone
    pc,          \* "start" | "done"
    text,        \* resolve: content of the params file
    status,      \* resolve: "none" | "ok" | "ParseError" | "ValueError" | "TypeError" | "RecursionError"
    heap,        \* resolve: the Python objects (dict / list / tuple) alive, by address
    definitions, \* resolve: name -> address of the macro's object
    ret,         \* resolve: the value read_params returned
    parsed,      \* resolve: the trees parse() returned, before any substitution (history)
    sites,       \* resolve: the copies made by _process, <<address, macro name>> (history)
    elems,       \* parse: the element texts of the container under test
    kind,        \* parse: "array" | "tuple" | "object"
    how,         \* parse: how the second text differs from the first
    pos,         \* parse: the token boundary where the comment is inserted
    res1,        \* parse: result of parse() on the first text
    res2         \* parse: result of parse() on the second text

vars == <<mode, pc, text, status, heap, definitions, ret, parsed, sites,
          elems, kind, how, pos, res1, res2>>

---------------------------------------------------------------------------
(* Characters and texts *)

Chars(s) == [i \in 1..Len(s) |-> SubSeq(s, i, i)]

Range(f) == {f[i] : i \in DOMAIN f}

At(t, i) == IF i >= 1 /\ i <= Len(t) THEN t[i] ELSE ""

Lower == Range(Chars("abcdefghijklmnopqrstuvwxyz"))

Upper == Range(Chars("ABCDEFGHIJKLMNOPQRSTUVWXYZ"))

Letter == Lower \cup Upper

DigitSeq == Chars("0123456789")

Digit == Range(DigitSeq)

DigitVal(c) == (CHOOSE n \in 1..10 : DigitSeq[n] = c) - 1

\* [^\S\r\n]: white space other than the line breaks
HSpace == {" ", "\t", "\f"}

\* \s
VSpace == HSpace \cup {"\n", "\r"}

RECURSIVE Span(_, _, _)
\* the index after the longest run of characters of S that starts at i
Span(t, i, S) == IF i <= Len(t) /\ t[i] \in S THEN Span(t, i + 1, S) ELSE i

StartsWith(t, i, s) == i + Len(s) - 1 <= Len(t) /\ SubSeq(t, i, i + Len(s) - 1) = s

---------------------------------------------------------------------------
(* Values: what parse() returns.  str, int, float, bool, None, and the     *)
(* containers list, tuple and dict (keys in insertion order).              *)

VStr(s) == [k |-> "str", s |-> s]

VInt(n) == [k |-> "int", n |-> n]

VFloat(m, e) == [k |-> "float", m |-> m, e |-> e]

VBool(b) == [k |-> "bool", b |-> b]

VNone == [k |-> "None"]

VList(items) == [k |-> "list", items |-> items]

VTuple(items) == [k |-> "tuple", items |-> items]

VDict(keys, items) == [k |-> "dict", keys |-> keys, items |-> items]

IsContainer(v) == v.k \in {"list", "tuple", "dict"}

\* position of key in keys, 0 when absent
RECURSIVE KeyIndex(_, _, _)
KeyIndex(keys, key, i) ==
    IF i > Len(keys) THEN 0
    ELSE IF keys[i] = key THEN i
    ELSE KeyIndex(keys, key, i + 1)

\* d[key] = val on a dict value: an existing key keeps its place
DictSet(d, key, val) ==
    LET at == KeyIndex(d.keys, key, 1)
    IN IF at = 0
       THEN VDict(Append(d.keys, key), Append(d.items, val))
       ELSE VDict(d.keys, [d.items EXCEPT ![at] = val])

RECURSIVE DictOf(_, _, _)
\* dict(pairs)
DictOf(pairs, i, d) ==
    IF i > Len(pairs) THEN d
    ELSE DictOf(pairs, i + 1, DictSet(d, pairs[i][1], pairs[i][2]))

---------------------------------------------------------------------------
(* Parser results and the lexical layer *)

Ok(i, v) == [ok |-> TRUE, i |-> i, v |-> v]

Fail(i) == [ok |-> FALSE, i |-> i, v |-> VNone]

\* the value x under a name of its own: F(x)
With(x, F(_)) == F(x)

\* generate: the steps after a step r run only when r succeeded
Bind(r, F(_)) == IF r.ok THEN F(r) ELSE r

\* p | q from index i: q is tried only when p failed without consuming
Alt(p, q, i) == IF p.ok \/ p.i # i THEN p ELSE q

whitespace(t, i) == Span(t, i, HSpace)

vertwhitespace(t, i) == Span(t, i, VSpace)

\* p << whitespace
lexeme(r, t) == IF r.ok THEN Ok(whitespace(t, r.i), r.v) ELSE r

\* p << vertwhitespace
openlexeme(r, t) == IF r.ok THEN Ok(vertwhitespace(t, r.i), r.v) ELSE r

RECURSIVE Matched(_, _, _, _)
\* how many leading characters of s the text holds at i
Matched(t, i, s, m) ==
    IF m < Len(s) /\ At(t, i + m) = s[m + 1] THEN Matched(t, i, s, m + 1) ELSE m

\* parsec.string(s): a failure reports the index after the matched prefix
string(t, i, s) ==
    LET m == Matched(t, i, s, 0)
    IN IF m = Len(s) THEN Ok(i + m, VStr(s)) ELSE Fail(i + m)

RECURSIVE CommentBody(_, _)
\* (?:[^*]|\*(?!\/))+ : the index after the match (i when nothing matches)
CommentBody(t, i) ==
    IF i <= Len(t) /\ (t[i] # "*" \/ At(t, i + 1) # "/")
    THEN CommentBody(t, i + 1)
    ELSE i

comment(t, i) ==
    LET o == string(t, i, Chars("/*"))
    IN IF ~o.ok THEN o
       ELSE LET j == CommentBody(t, o.i)
            IN IF j = o.i THEN Fail(o.i)
               ELSE openlexeme(string(t, j, Chars("*/")), t)

RECURSIVE many_comment(_, _)
\* many(comment): the index after the comments (many never fails)
many_comment(t, i) ==
    LET r == comment(t, i)
    IN IF ~r.ok THEN i
       ELSE IF r.i > Len(t) THEN r.i
       ELSE many_comment(t, r.i)

lbrace(t, i) == openlexeme(string(t, i, <<"{">>), t)

rbrace(t, i) == lexeme(string(t, vertwhitespace(t, i), <<"}">>), t)

lbrack(t, i) == openlexeme(string(t, i, <<"[">>), t)

rbrack(t, i) == lexeme(string(t, vertwhitespace(t, i), <<"]">>), t)

lbround(t, i) == openlexeme(string(t, i, <<"(">>), t)

rbround(t, i) == lexeme(string(t, vertwhitespace(t, i), <<")">>), t)

colon(t, i) == lexeme(string(t, i, <<":">>), t)

\* a separator that accepts the comma only
separator_comma(t, i) ==
    LET c == openlexeme(string(t, i, <<",">>), t)
    IN IF c.ok THEN c.i ELSE i

\* openlexeme(string(',')) | vertwhitespace : never fails, may match nothing
separator(t, i) ==
    LET c == openlexeme(string(t, i, <<",">>), t)
    IN IF c.ok THEN c.i ELSE vertwhitespace(t, i)

true(t, i) ==
    LET r == lexeme(string(t, i, Chars("True")), t)
    IN IF r.ok THEN Ok(r.i, VBool(TRUE)) ELSE r

false(t, i) ==
    LET r == lexeme(string(t, i, Chars("False")), t)
    IN IF r.ok THEN Ok(r.i, VBool(FALSE)) ELSE r

null(t, i) ==
    LET r == lexeme(string(t, i, Chars("None")), t)
    IN IF r.ok THEN Ok(r.i, VNone) ELSE r

quote(t, i) ==
    LET d == string(t, i, <<"\"">>)
    IN IF d.ok \/ d.i # i THEN d ELSE string(t, i, <<"'">>)

\* (?!True)(?!False)(?!None)[a-zA-Z][-_a-zA-Z0-9.]*
literal(t, i) ==
    IF \/ StartsWith(t, i, Chars("True"))
       \/ StartsWith(t, i, Chars("False"))
       \/ StartsWith(t, i, Chars("None"))
       \/ At(t, i) \notin Letter
    THEN Fail(i)
    ELSE LET j == Span(t, i + 1, Letter \cup Digit \cup {"-", "_", "."})
         IN lexeme(Ok(j, VStr(SubSeq(t, i, j - 1))), t)

---------------------------------------------------------------------------
(* Numbers *)

RECURSIVE ToNat(_, _, _, _)
\* the decimal numeral t[i .. j-1]
ToNat(t, i, j, acc) ==
    IF i >= j THEN acc ELSE ToNat(t, i + 1, j, 10 * acc + DigitVal(t[i]))

\* -?(0|[1-9][0-9]*) : the index after the match (i when nothing matches)
IntEnd(t, i) ==
    LET s == IF At(t, i) = "-" THEN i + 1 ELSE i
    IN IF At(t, s) = "0" THEN s + 1
       ELSE IF At(t, s) \in Digit THEN Span(t, s + 1, Digit)
       ELSE i

\* the signed integer a numeral of IntEnd denotes
IntVal(t, i, j) ==
    IF At(t, i) = "-" THEN 0 - ToNat(t, i + 1, j, 0) ELSE ToNat(t, i, j, 0)

RECURSIVE Normal(_, _)
\* float(): the number m * 10^e, trailing zeros of m moved into e
Normal(m, e) ==
    IF m = 0 THEN VFloat(0, 0)
    ELSE IF m % 10 = 0 THEN Normal(m \div 10, e + 1)
    ELSE VFloat(m, e)

RECURSIVE Shift(_, _)
Shift(m, n) == IF n = 0 THEN m ELSE Shift(10 * m, n - 1)

\* -?(0|[1-9][0-9]*)([.][0-9]+)([eE][+-]?[0-9]+)? , then float()
number_float(t, i) ==
    LET a == IntEnd(t, i)
    IN IF a = i \/ At(t, a) # "." \/ At(t, a + 1) \notin Digit THEN Fail(i)
       ELSE LET f  == Span(t, a + 1, Digit)
                es == IF At(t, f + 1) \in {"+", "-"} THEN f + 2 ELSE f + 1
                ex == At(t, f) \in {"e", "E"} /\ At(t, es) \in Digit
                j  == IF ex THEN Span(t, es, Digit) ELSE f
                xv == IF ~ex THEN 0
                      ELSE IF At(t, f + 1) = "-" THEN 0 - ToNat(t, es, j, 0)
                      ELSE ToNat(t, es, j, 0)
                nf == f - a - 1
                ip == IntVal(t, i, a)
                fr == ToNat(t, a + 1, f, 0)
                m  == IF At(t, i) = "-" THEN Shift(ip, nf) - fr ELSE Shift(ip, nf) + fr
            IN lexeme(Ok(j, Normal(m, xv - nf)), t)

\* -?(0|[1-9][0-9]*) , then int()
number_int(t, i) ==
    LET j == IntEnd(t, i)
    IN IF j = i THEN Fail(i) ELSE lexeme(Ok(j, VInt(IntVal(t, i, j))), t)

---------------------------------------------------------------------------
(* Quoted strings *)

\* the printable ASCII characters 32 .. 95 and 97 .. 126
AsciiLow == Chars(" !\"#$%&'()*+,-./0123456789:;<=>?@ABCDEFGHIJKLMNOPQRSTUVWXYZ[\\]^_")

AsciiHigh == Chars("abcdefghijklmnopqrstuvwxyz{|}~")

\* the characters a text of the model is made of
Alphabet == Range(AsciiLow) \cup Range(AsciiHigh) \cup VSpace

\* chr(n); a code point outside the alphabet is the symbolic character "U+n"
Chr(n) ==
    IF n >= 32 /\ n <= 95 THEN AsciiLow[n - 31]
    ELSE IF n >= 97 /\ n <= 126 THEN AsciiHigh[n - 96]
    ELSE IF n = 9 THEN "\t"
    ELSE IF n = 10 THEN "\n"
    ELSE IF n = 12 THEN "\f"
    ELSE IF n = 13 THEN "\r"
    ELSE "U+" \o ToString(n)

HexVal(c) ==
    IF c \in Digit THEN DigitVal(c)
    ELSE IF c \in {"a", "A"} THEN 10
    ELSE IF c \in {"b", "B"} THEN 11
    ELSE IF c \in {"c", "C"} THEN 12
    ELSE IF c \in {"d", "D"} THEN 13
    ELSE IF c \in {"e", "E"} THEN 14
    ELSE 15

HexDigit == Digit \cup Range(Chars("abcdefABCDEF"))

\* chr(int(value[1:], 16)) for the match u[0-9a-fA-F]{4} that starts at i
to_chr(t, i) ==
    Chr(((HexVal(t[i + 1]) * 16 + HexVal(t[i + 2])) * 16 + HexVal(t[i + 3])) * 16
        + HexVal(t[i + 4]))

\* string_part() | string_esc() : one piece of a string body, decoded
charseq(t, i, end_quote) ==
    LET j == Span(t, i, Alphabet \ {end_quote, "\\"})
        c == At(t, i + 1)
    IN IF j > i THEN Ok(j, SubSeq(t, i, j - 1))
       ELSE IF At(t, i) # "\\" THEN Fail(i)
       ELSE IF c \in {"\\", "/"} THEN Ok(i + 2, <<c>>)
       ELSE IF c = "b" THEN Ok(i + 2, <<Chr(8)>>)
       ELSE IF c = "f" THEN Ok(i + 2, <<"\f">>)
       ELSE IF c = "n" THEN Ok(i + 2, <<"\n">>)
       ELSE IF c = "r" THEN Ok(i + 2, <<"\r">>)
       ELSE IF c = "t" THEN Ok(i + 2, <<"\t">>)
       ELSE IF c = "u" /\ \A d \in 2..5 : At(t, i + d) \in HexDigit
            THEN Ok(i + 6, <<to_chr(t, i + 1)>>)
       ELSE IF c = end_quote THEN Ok(i + 2, <<c>>)
       ELSE Fail(i + 1)

RECURSIVE many_charseq(_, _, _, _)
\* many(charseq(end_quote)), the pieces joined
many_charseq(t, i, end_quote, acc) ==
    LET r == charseq(t, i, end_quote)
    IN IF ~r.ok THEN Ok(i, acc)
       ELSE IF r.i > Len(t) THEN Ok(r.i, acc \o r.v)
       ELSE many_charseq(t, r.i, end_quote, acc \o r.v)

quoted(t, i) ==
    LET q == quote(t, i)
    IN IF ~q.ok THEN q
       ELSE LET body == many_charseq(t, q.i, q.v.s[1], <<>>)
                c    == string(t, body.i, q.v.s)
            IN IF ~c.ok THEN c ELSE lexeme(Ok(c.i, VStr(body.v)), t)

---------------------------------------------------------------------------
(* Containers and values *)

RECURSIVE value(_, _)
RECURSIVE bare_value(_, _)
RECURSIVE array(_, _)
RECURSIVE tuple_object(_, _)
RECURSIVE json_object(_, _)
RECURSIVE object_pair(_, _)
RECURSIVE sepBy_value(_, _, _)
RECURSIVE sepBy_pair(_, _, _)

\* sepBy(value, separator): acc holds the elements parsed so far
sepBy_value(t, i, acc) ==
    With(IF acc = <<>> THEN i ELSE separator(t, i), LAMBDA s :
    With(value(t, s), LAMBDA r :
        IF r.ok THEN sepBy_value(t, r.i, Append(acc, r.v)) ELSE Ok(s, acc)))

\* sepBy(object_pair, separator)
sepBy_pair(t, i, acc) ==
    With(IF acc = <<>> THEN i ELSE separator(t, i), LAMBDA s :
    With(object_pair(t, s), LAMBDA r :
        IF r.ok THEN sepBy_pair(t, r.i, Append(acc, r.v)) ELSE Ok(s, acc)))

array(t, i) ==
    Bind(lbrack(t, i), LAMBDA o :
    Bind(sepBy_value(t, many_comment(t, o.i), <<>>), LAMBDA es :
    Bind(rbrack(t, es.i), LAMBDA c :
        Ok(many_comment(t, c.i), VList(es.v)))))

tuple_object(t, i) ==
    Bind(lbround(t, i), LAMBDA o :
    Bind(sepBy_value(t, many_comment(t, o.i), <<>>), LAMBDA es :
    Bind(rbround(t, es.i), LAMBDA c :
        Ok(many_comment(t, c.i), VTuple(es.v)))))

object_pair(t, i) ==
    With(many_comment(t, i), LAMBDA c0 :
    Bind(Alt(quoted(t, c0), literal(t, c0), c0), LAMBDA key :
    Bind(colon(t, many_comment(t, key.i)), LAMBDA col :
    Bind(value(t, many_comment(t, col.i)), LAMBDA val :
        Ok(many_comment(t, val.i), <<key.v.s, val.v>>)))))

json_object(t, i) ==
    Bind(lbrace(t, i), LAMBDA o :
    Bind(sepBy_pair(t, many_comment(t, o.i), <<>>), LAMBDA ps :
    Bind(rbrace(t, many_comment(t, ps.i)), LAMBDA c :
        Ok(c.i, DictOf(ps.v, 1, VDict(<<>>, <<>>))))))

\* literal | quoted | number_float() | number_int() | json_object | array
\*   | tuple_object | true | false | null
bare_value(t, i) ==
    Alt(literal(t, i),
    Alt(quoted(t, i),
    Alt(number_float(t, i),
    Alt(number_int(t, i),
    Alt(json_object(t, i),
    Alt(array(t, i),
    Alt(tuple_object(t, i),
    Alt(true(t, i),
    Alt(false(t, i), null(t, i), i), i), i), i), i), i), i), i), i)

\* many(comment) >> value << many(comment)
value(t, i) ==
    Bind(bare_value(t, many_comment(t, i)), LAMBDA r :
        Ok(many_comment(t, r.i), r.v))

\* vertwhitespace >> (json_object | array | tuple_object) << vertwhitespace
parser(t, i) ==
    With(vertwhitespace(t, i), LAMBDA s :
        openlexeme(Alt(json_object(t, s), Alt(array(t, s), tuple_object(t, s), s), s), t))

\* parser.parse_strict(text): the whole text must be consumed
parse(t) ==
    With(parser(t, 1), LAMBDA r :
        IF r.ok /\ r.i = Len(t) + 1 THEN [ok |-> TRUE, v |-> r.v]
        ELSE [ok |-> FALSE, v |-> VNone])

---------------------------------------------------------------------------
(* The Python heap.  parse() returns fresh objects: a container of a tree  *)
(* becomes an object of the heap and is held by reference, so that two     *)
(* places can hold the same object.                                        *)

Ref(a) == [k |-> "ref", a |-> a]

RECURSIVE Alloc(_, _)
\* the tree v built as objects on top of heap h: [v |-> its value, h |-> the heap]
Alloc(v, h) ==
    IF ~IsContainer(v) THEN [v |-> v, h |-> h]
    ELSE LET F[i \in 0..Len(v.items)] ==
                 IF i = 0 THEN [vs |-> <<>>, h |-> h]
                 ELSE LET r == Alloc(v.items[i], F[i - 1].h)
                      IN [vs |-> Append(F[i - 1].vs, r.v), h |-> r.h]
             last == F[Len(v.items)]
         IN [v |-> Ref(Len(last.h) + 1),
             h |-> Append(last.h, [v EXCEPT !.items = last.vs])]

RECURSIVE Deep(_, _)
\* the tree that value v denotes in heap h
Deep(h, v) ==
    IF v.k # "ref" THEN v
    ELSE [h[v.a] EXCEPT !.items = [i \in 1..Len(h[v.a].items) |-> Deep(h, h[v.a].items[i])]]

RECURSIVE Reach(_, _)
\* the addresses of the objects reachable from value v
Reach(h, v) ==
    IF v.k # "ref" THEN {}
    ELSE {v.a} \cup UNION {Reach(h, h[v.a].items[i]) : i \in 1..Len(h[v.a].items)}

---------------------------------------------------------------------------
(* read_params *)

NAME == Chars("name")

RECURSIVE split(_, _, _, _, _)
\* t.split(sep): i scans, start is where the current piece began
split(t, sep, i, start, acc) ==
    IF i + Len(sep) - 1 > Len(t) THEN Append(acc, SubSeq(t, start, Len(t)))
    ELSE IF StartsWith(t, i, sep)
         THEN split(t, sep, i + Len(sep), i + Len(sep), Append(acc, SubSeq(t, start, i - 1)))
    ELSE split(t, sep, i + 1, start, acc)

RECURSIVE Find(_, _, _)
\* index of the first c at or after i, 0 when there is none
Find(t, c, i) ==
    IF i > Len(t) THEN 0 ELSE IF t[i] = c THEN i ELSE Find(t, c, i + 1)

RECURSIVE SpanBack(_, _, _)
SpanBack(t, j, S) == IF j >= 1 /\ t[j] \in S THEN SpanBack(t, j - 1, S) ELSE j

\* t.strip()
strip(t) == SubSeq(t, Span(t, 1, VSpace), SpanBack(t, Len(t), VSpace))

\* copy(x) of an object: a new dict or list with the same items (the items
\* themselves are not copied); copy() of a tuple is the tuple itself
copy(h, a) ==
    IF h[a].k = "tuple" THEN [v |-> Ref(a), h |-> h]
    ELSE [v |-> Ref(Len(h) + 1), h |-> Append(h, h[a])]

RECURSIVE _process(_, _, _, _, _)
RECURSIVE ProcessItems(_, _, _, _, _, _)

\* a walk that copies a macro's value without processing the copy
_process_once(input, defs, h, made, depth) ==
    IF depth = 0 THEN [st |-> "RecursionError", v |-> input, h |-> h, made |-> made]
    ELSE LET hit == input.k = "str" /\ input.s \in DOMAIN defs
             c   == IF hit THEN copy(h, defs[input.s]) ELSE [v |-> input, h |-> h]
             m1  == IF hit THEN Append(made, <<c.v.a, input.s>>) ELSE made
         IN IF ~hit /\ c.v.k = "ref" /\ c.h[c.v.a].k \in {"list", "dict"}
            THEN ProcessItems(c.v.a, 1, defs, c.h, m1, depth)
            ELSE [st |-> "ok", v |-> c.v, h |-> c.h, made |-> m1]

RECURSIVE ProcessListItems(_, _, _, _, _, _)
\* a walk that exempts every map entry, not only the one under `name`
ProcessListItems(a, i, defs, h, made, depth) ==
    IF i > Len(h[a].items) THEN [st |-> "ok", v |-> Ref(a), h |-> h, made |-> made]
    ELSE IF h[a].k = "dict"
         THEN ProcessListItems(a, i + 1, defs, h, made, depth)
    ELSE LET r == _process(h[a].items[i], defs, h, made, depth - 1)
         IN IF r.st # "ok" THEN r
            ELSE ProcessListItems(a, i + 1, defs, [r.h EXCEPT ![a].items[i] = r.v], r.made, depth)

\* _process(input, definitions) on heap h.  depth is the number of Python
\* frames left; st = "RecursionError" when they run out.  made records the
\* copies taken so far.
_process(input, defs, h, made, depth) ==
    IF depth = 0
    THEN [st |-> "RecursionError", v |-> input, h |-> h, made |-> made]
    ELSE LET hit == input.k = "str" /\ input.s \in DOMAIN defs
             c   == IF hit THEN copy(h, defs[input.s]) ELSE [v |-> input, h |-> h]
             m1  == IF hit THEN Append(made, <<c.v.a, input.s>>) ELSE made
         IN IF c.v.k = "ref" /\ c.h[c.v.a].k \in {"list", "dict"}
            THEN ProcessItems(c.v.a, 1, defs, c.h, m1, depth)
            ELSE [st |-> "ok", v |-> c.v, h |-> c.h, made |-> m1]

\* the loop `for i, element in items` over the object at address a, from its
\* i-th item on
ProcessItems(a, i, defs, h, made, depth) ==
    IF i > Len(h[a].items)
    THEN [st |-> "ok", v |-> Ref(a), h |-> h, made |-> made]
    ELSE IF h[a].k = "dict" /\ h[a].keys[i] = NAME
         THEN ProcessItems(a, i + 1, defs, h, made, depth)
    ELSE LET r == _process(h[a].items[i], defs, h, made, depth - 1)
         IN IF r.st # "ok" THEN r
            ELSE ProcessItems(a, i + 1, defs,
                              [r.h EXCEPT ![a].items[i] = r.v], r.made, depth)

RECURSIVE BuildDefinitions(_, _, _)
\* the loop `for section in sections[1:]`, from section i on
BuildDefinitions(sections, i, st) ==
    IF i > Len(sections) \/ st.st # "ok" THEN st
    ELSE With(Find(sections[i], "\n", 1), LAMBDA nl :
         IF nl = 0 THEN [st EXCEPT !.st = "ValueError"]
         ELSE
         With(strip(SubSeq(sections[i], 1, nl - 1)), LAMBDA name :
         With(parse(SubSeq(sections[i], nl + 1, Len(sections[i]))), LAMBDA p :
         IF ~p.ok THEN [st EXCEPT !.st = "ParseError"]
         ELSE
         With(Alloc(p.v, st.h), LAMBDA al :
         IF p.v.k # "dict"
         THEN [st EXCEPT !.st = "TypeError", !.h = al.h,
                         !.defs = (name :> al.v.a) @@ st.defs]
         ELSE BuildDefinitions(sections, i + 1,
                  [st EXCEPT !.h = [al.h EXCEPT ![al.v.a] = DictSet(al.h[al.v.a], NAME, VStr(name))],
                             !.defs = (name :> al.v.a) @@ st.defs])))))

\* the last line of read_params: _process(parse(sections[0]), definitions)
Resolve(p, built, depth) ==
    IF ~p.ok
    THEN [st |-> "ParseError", v |-> VNone, h |-> built.h, defs |-> built.defs, made |-> <<>>]
    ELSE With(Alloc(p.v, built.h), LAMBDA al :
         With(_process(al.v, built.defs, al.h, <<>>, depth), LAMBDA r :
             [st |-> r.st, v |-> IF r.st = "ok" THEN r.v ELSE VNone, h |-> r.h,
              defs |-> built.defs, made |-> r.made]))

\* read_params on the file content t
read_params(t, depth) ==
    With(split(t, Chars("#define "), 1, 1, <<>>), LAMBDA sections :
    With(BuildDefinitions(sections, 2, [st |-> "ok", h |-> <<>>, defs |-> <<>>]), LAMBDA built :
        IF built.st # "ok"
        THEN [st |-> built.st, v |-> VNone, h |-> built.h, defs |-> built.defs, made |-> <<>>]
        ELSE Resolve(parse(sections[1]), built, depth)))

---------------------------------------------------------------------------
(* The runs of read_params: the documents *)

\* the most #define sections of a document
MaxDefs == 3

\* the Python frames _process may use before RecursionError
MaxDepth == 16

\* the name of the i-th section of a document
MacroNames == <<"A", "B", "C", "D">>

Preambles ==
    { "{x: A}",
      "[A, \"A\", B]",
      "{name: A, s: [A], t: (A)}",
      "[C, A]",
      "{x: }" }

Bodies ==
    { "{a: 1}",
      "{x: B}",
      "{x: A}",
      "{l: [B, {c: 2}]}",
      "{name: B, t: (B), n: {name: B}}",
      "[1]",
      "(1)" }

RECURSIVE Sections(_, _)
\* the text of the sections i .. Len(bs), section j with body bs[j]
Sections(bs, i) ==
    IF i > Len(bs) THEN <<>>
    ELSE Chars("#define ") \o Chars(MacroNames[i]) \o <<"\n">> \o Chars(bs[i]) \o <<"\n">>
         \o Sections(bs, i + 1)

Doc(pre, bs) == Chars(pre) \o <<"\n">> \o Sections(bs, 1)

\* what parse() returns on each part of the file, whether or not read_params
\* gets as far as parsing it
ParsedOf(t) ==
    With(split(t, Chars("#define "), 1, 1, <<>>), LAMBDA sections :
        [pre  |-> parse(sections[1]),
         secs |-> [i \in 1..(Len(sections) - 1) |->
                     With(Find(sections[i + 1], "\n", 1), LAMBDA nl :
                         [name |-> strip(SubSeq(sections[i + 1], 1, nl - 1)),
                          nl   |-> nl # 0,
                          p    |-> parse(SubSeq(sections[i + 1], nl + 1, Len(sections[i + 1])))])]])

NoResult == [ok |-> FALSE, v |-> [k |-> "pending"]]

InitResolve ==
    /\ mode = "resolve"
    /\ pc = "start"
    /\ \E pre \in Preambles, n \in 0..MaxDefs :
          \E bs \in [1..n -> Bodies] : text = Doc(pre, bs)
    /\ status = "none"
    /\ heap = <<>>
    /\ definitions = <<>>
    /\ ret = VNone
    /\ parsed = [pre |-> NoResult, secs |-> <<>>]
    /\ sites = <<>>
    /\ elems = <<>> /\ kind = "none" /\ how = "none" /\ pos = 0
    /\ res1 = NoResult /\ res2 = NoResult

\* one call read_params(params_file)
ReadParams ==
    /\ mode = "resolve"
    /\ pc = "start"
    /\ \E r \in {read_params(text, MaxDepth)} :
          /\ status' = r.st
          /\ heap' = r.h
          /\ definitions' = r.defs
          /\ ret' = r.v
          /\ sites' = r.made
    /\ parsed' = ParsedOf(text)
    /\ pc' = "done"
    /\ UNCHANGED <<mode, text, elems, kind, how, pos, res1, res2>>

Next == ReadParams

Init == InitResolve

Spec == Init /\ [][Next]_vars

---------------------------------------------------------------------------
(* The runs of parse() alone: a container text and a second text derived   *)
(* from it.  A text is written as a sequence of tokens; the places between *)
(* two tokens, before the first and after the last are its boundaries.     *)

\* the most elements of the container under test
MaxElems == 3

Kinds == {"array", "tuple", "object"}

\* the texts of the values used as elements, as tokens
ValueToks ==
    { <<"1">>, <<"a">>, <<"\"s t\"">>,
      <<"[", "-2.5", "]">>, <<"{", "k", ": ", "None", "}">> }

\* keywords, identifiers that begin with a keyword, and other identifiers
KeywordToks ==
    { <<"True">>, <<"False">>, <<"None">>,
      <<"Truesomething">>, <<"Falsey">>, <<"None_1">>, <<"Tru">>, <<"x">> }

\* the key of the i-th pair of an object under test
KeyNames == <<"k1", "k2", "k3", "k4">>

CommentTok == "/* c */"

Open(kd) == IF kd = "array" THEN "[" ELSE IF kd = "tuple" THEN "(" ELSE "{"

Close(kd) == IF kd = "array" THEN "]" ELSE IF kd = "tuple" THEN ")" ELSE "}"

RECURSIVE ElemTokens(_, _, _, _)
\* the tokens of the elements i .. Len(es), sp between two elements
ElemTokens(kd, es, sp, i) ==
    IF i > Len(es) THEN <<>>
    ELSE (IF i > 1 THEN <<sp>> ELSE <<>>)
         \o (IF kd = "object" THEN <<KeyNames[i], ": ">> ELSE <<>>)
         \o es[i] \o ElemTokens(kd, es, sp, i + 1)

Tokens(kd, es, sp) == <<Open(kd)>> \o ElemTokens(kd, es, sp, 1) \o <<Close(kd)>>

RECURSIVE Flatten(_, _)
Flatten(toks, i) == IF i > Len(toks) THEN <<>> ELSE Chars(toks[i]) \o Flatten(toks, i + 1)

InsertAt(toks, at, tok) == SubSeq(toks, 1, at) \o <<tok>> \o SubSeq(toks, at + 1, Len(toks))

\* the first text: the elements separated by commas
SrcText == Flatten(Tokens(kind, elems, ", "), 1)

\* the second text: the same elements separated by a newline alone, or the
\* first text with a comment inserted at boundary pos
AltText ==
    IF how = "newline" THEN Flatten(Tokens(kind, elems, "\n"), 1)
    ELSE Flatten(InsertAt(Tokens(kind, elems, ", "), pos, CommentTok), 1)

InitParse ==
    /\ mode = "parse"
    /\ pc = "start"
    /\ how \in {"newline", "comment", "keyword"}
    /\ kind \in Kinds
    /\ \E n \in 0..MaxElems :
          elems \in [1..n -> IF how = "keyword" THEN KeywordToks ELSE ValueToks]
    /\ pos \in IF how = "comment" THEN 0..Len(Tokens(kind, elems, ", ")) ELSE {0}
    /\ res1 = NoResult /\ res2 = NoResult
    /\ text = <<>> /\ status = "none" /\ heap = <<>> /\ definitions = <<>>
    /\ ret = VNone /\ parsed = [pre |-> NoResult, secs |-> <<>>] /\ sites = <<>>

\* parse(text) on the first text
ParseSrc ==
    /\ mode = "parse"
    /\ res1 = NoResult
    /\ res1' = parse(SrcText)
    /\ pc' = IF how = "keyword" \/ res2 # NoResult THEN "done" ELSE pc
    /\ UNCHANGED <<mode, text, status, heap, definitions, ret, parsed, sites,
                   elems, kind, how, pos, res2>>

\* parse(text) on the second text
ParseAlt ==
    /\ mode = "parse"
    /\ how # "keyword"
    /\ res2 = NoResult
    /\ res2' = parse(AltText)
    /\ pc' = IF res1 # NoResult THEN "done" ELSE pc
    /\ UNCHANGED <<mode, text, status, heap, definitions, ret, parsed, sites,
                   elems, kind, how, pos, res1>>

NextParse == ParseSrc \/ ParseAlt

SpecParse == InitParse /\ [][NextParse]_vars

---------------------------------------------------------------------------
(* What the properties speak about *)

Done == mode = "resolve" /\ pc = "done"

Returned == Done /\ status = "ok"

\* the names of the document's #define sections
AllNames == {parsed.secs[i].name : i \in DOMAIN parsed.secs}

\* the section that defines macro n (the last one of that name)
SectionOf(n) ==
    CHOOSE i \in DOMAIN parsed.secs :
        /\ parsed.secs[i].name = n
        /\ \A j \in DOMAIN parsed.secs : parsed.secs[j].name = n => j <= i

\* the body of macro n as parse() returned it
Body(n) == parsed.secs[SectionOf(n)].p.v

\* the macros whose body is a Map
MapNames == {n \in AllNames : Body(n).k = "dict"}

\* the value of a Map macro: its body's entries and the entry name = n
Tagged(n) == DictSet(Body(n), NAME, VStr(n))

\* d[key] of a dict value d that has the key
Get(d, key) == d.items[KeyIndex(d.keys, key, 1)]

\* every part of the file parses
Parseable ==
    /\ parsed.pre.ok
    /\ \A i \in DOMAIN parsed.secs : parsed.secs[i].nl /\ parsed.secs[i].p.ok

RECURSIVE RefsOf(_)
\* the references of a tree: the macro names stored as a list element or under
\* a map key other than `name`
RefsOf(v) ==
    IF v.k = "str" THEN {v.s} \cap AllNames
    ELSE IF v.k = "list" THEN UNION {RefsOf(v.items[i]) : i \in 1..Len(v.items)}
    ELSE IF v.k = "dict"
         THEN UNION {IF v.keys[i] = NAME THEN {} ELSE RefsOf(v.items[i]) : i \in 1..Len(v.items)}
    ELSE {}

RECURSIVE Chain(_, _)
\* the macros reached from the set S in at most n further steps
Chain(S, n) ==
    IF n = 0 THEN S ELSE Chain(S \cup UNION {RefsOf(Body(m)) : m \in S}, n - 1)

\* no macro reaches its own name through a chain of references
Acyclic == \A n \in AllNames : n \notin Chain(RefsOf(Body(n)), Cardinality(AllNames))

RECURSIVE Expected(_, _)
\* the tree v with every reference to a Map macro replaced by the macro's value,
\* the references inside that value included
Expected(v, fuel) ==
    LET w == IF v.k = "str" /\ v.s \in MapNames /\ fuel > 0 THEN Tagged(v.s) ELSE v
    IN IF w.k = "list"
       THEN [w EXCEPT !.items = [i \in 1..Len(w.items) |-> Expected(w.items[i], fuel - 1)]]
       ELSE IF w.k = "dict"
       THEN [w EXCEPT !.items = [i \in 1..Len(w.items) |->
                                   IF w.keys[i] = NAME THEN w.items[i]
                                   ELSE Expected(w.items[i], fuel - 1)]]
       ELSE w

\* the addresses of the dicts and lists reachable from value v
MutableReach(h, v) == {a \in Reach(h, v) : h[a].k # "tuple"}

---------------------------------------------------------------------------
(* Properties of parse() *)

BothParsed == mode = "parse" /\ res1 # NoResult /\ res2 # NoResult

\* the Python type parse() builds for a container of kind kd
TypeOf(kd) == IF kd = "array" THEN "list" ELSE IF kd = "tuple" THEN "tuple" ELSE "dict"

\* the value each element text of ValueToks denotes
Denotes(e) ==
    IF e = <<"1">> THEN VInt(1)
    ELSE IF e = <<"a">> THEN VStr(<<"a">>)
    ELSE IF e = <<"\"s t\"">> THEN VStr(<<"s", " ", "t">>)
    ELSE IF e = <<"[", "-2.5", "]">> THEN VList(<<VFloat(-25, -1)>>)
    ELSE VDict(<<<<"k">>>>, <<VNone>>)

\* the container the elements es denote
Container(kd, es) ==
    [k |-> TypeOf(kd), items |-> [i \in 1..Len(es) |-> Denotes(es[i])]]
    @@ (IF kd = "object" THEN [keys |-> [i \in 1..Len(es) |-> Chars(KeyNames[i])]] ELSE <<>>)

\* C7: separator equivalence.  For every sequence of values, the array, tuple
\* or object text that separates them with commas and the text that separates
\* them with a newline alone are both accepted and parse to the identical
\* container, which holds exactly these elements in this order.
SeparatorEquivalence ==
    (BothParsed /\ how = "newline")
        => /\ res1.ok
           /\ res2.ok
           /\ res2.v = res1.v
           /\ res1.v = Container(kind, elems)

\* the newline-separated text of three elements has been parsed
SeparatorWitness ==
    /\ BothParsed
    /\ how = "newline"
    /\ kind = "object"
    /\ Len(elems) = 3
    /\ res2.ok
    /\ Len(res2.v.items) = 3

\* C6: comments are transparent.  For every text that parse() accepts,
\* inserting a block comment at any boundary (the boundaries before and after
\* the root's delimiters included) gives a text that parse() accepts and that
\* parses to the same structure.
CommentsTransparent ==
    (BothParsed /\ how = "comment" /\ res1.ok) => (res2.ok /\ res2.v = res1.v)

\* the boundaries where parse() ignores a comment: all of them but the one
\* before the root and, for a root object, the one after it
CommentsTransparentInside ==
    (BothParsed /\ how = "comment" /\ res1.ok /\ pos > 0
        /\ (kind = "object" => pos < Len(Tokens(kind, elems, ", "))))
        => (res2.ok /\ res2.v = res1.v)

\* what the claim says the value text e parses to
KeywordDenotes(e) ==
    IF e = <<"True">> THEN VBool(TRUE)
    ELSE IF e = <<"False">> THEN VBool(FALSE)
    ELSE IF e = <<"None">> THEN VNone
    ELSE VStr(Chars(e[1]))

\* C5: keyword precedence.  At every value position the exact texts True,
\* False, None parse as the boolean / null values, and an identifier that only
\* begins with a keyword parses as one bareword carrying the whole text.
KeywordPrecedence ==
    (mode = "parse" /\ how = "keyword" /\ res1 # NoResult)
        => /\ res1.ok
           /\ Len(res1.v.items) = Len(elems)
           /\ \A i \in 1..Len(elems) : res1.v.items[i] = KeywordDenotes(elems[i])

\* the part of C5 that the code keeps: exact keywords and identifiers that do
\* not begin with a keyword
ExactKeywords ==
    (mode = "parse" /\ how = "keyword" /\ res1 # NoResult
        /\ \A i \in 1..Len(elems) : elems[i] \in {<<"True">>, <<"False">>, <<"None">>, <<"Tru">>, <<"x">>})
        => /\ res1.ok
           /\ Len(res1.v.items) = Len(elems)
           /\ \A i \in 1..Len(elems) : res1.v.items[i] = KeywordDenotes(elems[i])

---------------------------------------------------------------------------
(* Properties of read_params *)

\* the value at the i-th place where _process put a copy of a macro
SiteRef(i) == Ref(sites[i][1])

SiteMacro(i) == sites[i][2]

\* C1: macro substitution.  For every document whose preamble and bodies
\* parse (and in which no macro reaches itself), read_params returns the
\* preamble tree in which every string leaf equal to the name of a Map macro,
\* reached through lists and map keys other than `name`, is replaced by a map
\* holding the body's entries plus the entry name = NAME, which overrides a
\* `name` entry written in the body.
Substitution ==
    (Done /\ Parseable /\ Acyclic /\ MapNames # {})
        => /\ status = "ok"
           /\ Deep(heap, ret) = Expected(parsed.pre.v, MaxDepth)

\* the part of C1 that the code keeps: the tree of every call that returns
SubstitutionWhenReturned ==
    Returned => Deep(heap, ret) = Expected(parsed.pre.v, MaxDepth)

\* del x[i] on the object at address a
DelEntry(h, a, i) ==
    LET cut(q) == SubSeq(q, 1, i - 1) \o SubSeq(q, i + 1, Len(q))
    IN IF h[a].k = "dict"
       THEN [h EXCEPT ![a] = VDict(cut(h[a].keys), cut(h[a].items))]
       ELSE [h EXCEPT ![a].items = cut(h[a].items)]

\* C2: independent copies.  After read_params returns, two places where the
\* same macro was expanded share no dict or list at any depth, neither with
\* each other nor with the stored definitions, so deleting an entry reached
\* through one place leaves the value at every other place unchanged.
IndependentCopies ==
    Returned =>
        /\ \A i \in DOMAIN sites : \A n \in DOMAIN definitions :
              MutableReach(heap, SiteRef(i)) \cap MutableReach(heap, Ref(definitions[n])) = {}
        /\ \A i, j \in DOMAIN sites :
              (i # j /\ SiteMacro(i) = SiteMacro(j)) =>
                  /\ MutableReach(heap, SiteRef(i)) \cap MutableReach(heap, SiteRef(j)) = {}
                  /\ \A a \in MutableReach(heap, SiteRef(i)) :
                        \A e \in 1..Len(heap[a].items) :
                            Deep(DelEntry(heap, a, e), SiteRef(j)) = Deep(heap, SiteRef(j))

RECURSIVE RefsReplaced(_, _, _, _)
\* exp is the tree found where the tree body was expanded: every string of
\* body equal to the name of a macro other than owner, found through lists
\* and map keys (other than `name` when exempt), is in exp a map tagged with
\* that name, in which in turn the macro's own references are replaced
RefsReplaced(body, exp, owner, exempt) ==
    IF body.k = "str"
    THEN (body.s \in AllNames /\ body.s # owner) =>
             /\ exp.k = "dict"
             /\ exp.keys = Tagged(body.s).keys
             /\ Get(exp, NAME) = VStr(body.s)
             /\ RefsReplaced(Body(body.s), exp, body.s, exempt)
    ELSE IF body.k = "list"
    THEN /\ exp.k = "list"
         /\ Len(exp.items) = Len(body.items)
         /\ \A i \in 1..Len(body.items) :
               RefsReplaced(body.items[i], exp.items[i], owner, exempt)
    ELSE IF body.k = "dict"
    THEN /\ exp.k = "dict"
         /\ \A i \in 1..Len(body.keys) :
               /\ KeyIndex(exp.keys, body.keys[i], 1) # 0
               /\ (exempt /\ body.keys[i] = NAME)
                  \/ RefsReplaced(body.items[i], Get(exp, body.keys[i]), owner, exempt)
    ELSE TRUE

\* C3 (as amended): references resolve transitively in one call.  When the
\* body of macro A holds, at any depth through lists and through map keys
\* other than `name`, a string equal to another macro name B, that string is
\* replaced by B's value at every place where A is expanded in the returned
\* tree, whether B's section comes before or after A's.
TransitiveResolution ==
    Returned => \A i \in DOMAIN sites :
        RefsReplaced(Body(SiteMacro(i)), Deep(heap, SiteRef(i)), SiteMacro(i), TRUE)

\* C3 (as stated): the same through every map key, `name` included.
TransitiveThroughEveryKey ==
    Returned => \A i \in DOMAIN sites :
        RefsReplaced(Body(SiteMacro(i)), Deep(heap, SiteRef(i)), SiteMacro(i), FALSE)

\* a returned tree with two expanded macros that each reference another
\* macro, one defined later in the file and one defined earlier
TransitiveWitness ==
    /\ Returned
    /\ \E i, j \in DOMAIN sites :
          /\ \E b \in RefsOf(Body(SiteMacro(i))) : SectionOf(b) > SectionOf(SiteMacro(i))
          /\ \E b \in RefsOf(Body(SiteMacro(j))) : SectionOf(b) < SectionOf(SiteMacro(j))

RECURSIVE NoRefLeft(_, _)
\* no string equal to a macro name is left in tree v at a place reached
\* through lists, map keys other than `name` and (with tuples) tuples
NoRefLeft(v, tuples) ==
    IF v.k = "str" THEN v.s \notin AllNames
    ELSE IF v.k = "list" \/ (tuples /\ v.k = "tuple")
    THEN \A i \in 1..Len(v.items) : NoRefLeft(v.items[i], tuples)
    ELSE IF v.k = "dict"
    THEN \A i \in 1..Len(v.items) : v.keys[i] = NAME \/ NoRefLeft(v.items[i], tuples)
    ELSE TRUE

\* C4: the walk descends into tuples as into lists.  A string element of a
\* tuple, in the preamble or in an expanded macro body, that equals a macro
\* name is replaced by the macro's value.
TuplesWalked == Returned => NoRefLeft(Deep(heap, ret), TRUE)

RECURSIVE NameKept(_, _)
\* res is what the tree orig became: wherever the walk went (lists, map keys
\* other than `name`, the value of a replaced reference), the value under the
\* key `name` of a map is the one it had
NameKept(orig, res) ==
    IF orig.k = "str" /\ orig.s \in AllNames
    THEN NameKept(Tagged(orig.s), res)
    ELSE IF orig.k = "list"
    THEN /\ res.k = "list"
         /\ Len(res.items) = Len(orig.items)
         /\ \A i \in 1..Len(orig.items) : NameKept(orig.items[i], res.items[i])
    ELSE IF orig.k = "dict"
    THEN /\ res.k = "dict"
         /\ res.keys = orig.keys
         /\ \A i \in 1..Len(orig.items) :
               IF orig.keys[i] = NAME THEN res.items[i] = orig.items[i]
               ELSE NameKept(orig.items[i], res.items[i])
    ELSE TRUE

\* C8: reserved-key exemption.  The value under the key `name` of any map,
\* in the preamble or in an expanded macro, is left exactly as it was, even
\* when it equals a macro name; list elements at every index and map entries
\* under every other key are processed, so none of them still holds a macro
\* name.
ReservedKeyExemption ==
    Returned => /\ NameKept(parsed.pre.v, Deep(heap, ret))
                /\ NoRefLeft(Deep(heap, ret), FALSE)

\* a returned tree with an expanded macro in which a `name` entry written in
\* the preamble still holds a macro name
ReservedKeyWitness ==
    /\ Returned
    /\ sites # <<>>
    /\ parsed.pre.v.k = "dict"
    /\ KeyIndex(parsed.pre.v.keys, NAME, 1) # 0
    /\ Get(parsed.pre.v, NAME).k = "str"
    /\ Get(parsed.pre.v, NAME).s \in AllNames
    /\ Get(Deep(heap, ret), NAME) = Get(parsed.pre.v, NAME)

\* C9: a #define section whose body is a List or a Tuple is accepted, every
\* reference to it is replaced by that list or tuple, and no `name` entry is
\* added to it.
ListMacroAccepted ==
    (Done /\ Parseable /\ Acyclic /\ AllNames # MapNames)
        => /\ status = "ok"
           /\ \A i \in DOMAIN sites :
                 SiteMacro(i) \notin MapNames
                     => Deep(heap, SiteRef(i)).k = Body(SiteMacro(i)).k

\* C10: termination.  read_params finishes and returns a tree for every
\* parseable document in which no macro reaches its own name through a chain
\* of references, and only a macro that reaches itself makes the walk run
\* without end.
Termination ==
    /\ (Done /\ Parseable /\ Acyclic) => status = "ok"
    /\ (Done /\ status = "RecursionError") => ~Acyclic

\* the part of C10 that the code keeps: the documents all of whose macros are
\* Maps
TerminationOfMapDocuments ==
    /\ (Done /\ Parseable /\ Acyclic /\ AllNames = MapNames) => status = "ok"
    /\ (Done /\ status = "RecursionError") => ~Acyclic

====
